---------------------------- MODULE Spec2Model ----------------------------
(***************************************************************************)
(* EDRS (Early Delinquency Risk Score), src/app.py: the column normalizer, *)
(* the loader and compute_features (features, score, bucket, priority      *)
(* views) as a state machine over in-memory tables, the header-row search  *)
(* of the spreadsheet loader, and the narrative cache of                   *)
(* get_or_generate_conclusion.                                             *)
(*                                                                         *)
(* A column name is a sequence of one-character strings, so that strip(),  *)
(* lower(), re.sub and re.fullmatch are computed character by character.   *)
(* A table (pandas DataFrame) is [columns, rows, derived]: the raw columns *)
(* by position, the rows' cells by position, and per row the record of the *)
(* derived columns compute_features has added so far (<<>> when none).     *)
(***************************************************************************)
EXTENDS Integers, Sequences, FiniteSets, TLC

VARIABLES
    pc,             \* "file" | "loaded" | "done" | "error" | "norm" |
                    \* "xls_loop" | "xls_fallback" | "cache"
    file,           \* the table as stored in the saved/uploaded file
    raw_df,         \* load_data's result (normalized columns)
    base_df,        \* the table compute_features works on (raw_df.copy())
    out,            \* compute_features' results, None before it returns
    top_prior,
    top_prior_all,
    err,            \* the ValueError message that reached the top level
    prev_df,        \* the normalizer's previous output (repeated application)
    n_calls,        \* number of _normalize_columns applications, or of
                    \* get_or_generate_conclusion calls, so far
    hdr,            \* _read_file_any: the header-row candidate being tried
    index,          \* legal_conclusions/index.json: str(ID) -> [sig, path]
    cache_files,    \* legal_conclusions/*.txt: path -> text
    last_call       \* the last get_or_generate_conclusion call, None if none

vars == <<pc, file, raw_df, base_df, out, top_prior, top_prior_all, err,
          prev_df, n_calls, hdr, index, cache_files, last_call>>

(***************************************************************************)
(* Bounds of the model.                                                    *)
(***************************************************************************)
MaxCols == 2        \* columns of a header given to the normalizer alone
MaxCalls == 2       \* repeated applications of the normalizer
MaxRows == 2        \* accounts of a portfolio in the priority views
MaxPay == 2         \* largest PAY_* status value of an input cell
MaxConclusions == 3 \* get_or_generate_conclusion calls in one run

None == <<"None">>

(***************************************************************************)
(* Characters and strings.                                                 *)
(***************************************************************************)
DigitChars == <<"0","1","2","3","4","5","6","7","8","9">>

\* regex class \s
Whitespace == {" ", "\t", "\n", "\r"}

\* f"{i}" for 0 <= i <= 9
D(i) == DigitChars[i + 1]

\* the lower-case letter of each upper-case letter, and back
LowerOf ==
    "A" :> "a" @@ "B" :> "b" @@ "C" :> "c" @@ "D" :> "d" @@ "E" :> "e"
    @@ "F" :> "f" @@ "G" :> "g" @@ "H" :> "h" @@ "I" :> "i" @@ "J" :> "j"
    @@ "K" :> "k" @@ "L" :> "l" @@ "M" :> "m" @@ "N" :> "n" @@ "O" :> "o"
    @@ "P" :> "p" @@ "Q" :> "q" @@ "R" :> "r" @@ "S" :> "s" @@ "T" :> "t"
    @@ "U" :> "u" @@ "V" :> "v" @@ "W" :> "w" @@ "X" :> "x" @@ "Y" :> "y"
    @@ "Z" :> "z"
UpperOf ==
    "a" :> "A" @@ "b" :> "B" @@ "c" :> "C" @@ "d" :> "D" @@ "e" :> "E"
    @@ "f" :> "F" @@ "g" :> "G" @@ "h" :> "H" @@ "i" :> "I" @@ "j" :> "J"
    @@ "k" :> "K" @@ "l" :> "L" @@ "m" :> "M" @@ "n" :> "N" @@ "o" :> "O"
    @@ "p" :> "P" @@ "q" :> "Q" @@ "r" :> "R" @@ "s" :> "S" @@ "t" :> "T"
    @@ "u" :> "U" @@ "v" :> "V" @@ "w" :> "W" @@ "x" :> "X" @@ "y" :> "Y"
    @@ "z" :> "Z"

lower_char(ch) == IF ch \in DOMAIN LowerOf THEN LowerOf[ch] ELSE ch

upper_char(ch) == IF ch \in DOMAIN UpperOf THEN UpperOf[ch] ELSE ch

\* a sequence given as a function, as the tuple it is (evaluated once)
Tup(s) == s \o <<>>

\* str.lower()
lower(s) == Tup([i \in DOMAIN s |-> lower_char(s[i])])

RECURSIVE lstrip(_)
lstrip(s) ==
    IF s # <<>> /\ Head(s) \in Whitespace THEN lstrip(Tail(s)) ELSE s

RECURSIVE rstrip(_)
rstrip(s) ==
    IF s # <<>> /\ s[Len(s)] \in Whitespace
    THEN rstrip(SubSeq(s, 1, Len(s) - 1))
    ELSE s

\* str.strip()
strip(s) == rstrip(lstrip(s))

\* str.startswith(prefix)
startswith(s, prefix) ==
    Len(s) >= Len(prefix) /\ SubSeq(s, 1, Len(prefix)) = prefix

IsSepChar(ch) == ch \in Whitespace \cup {".", "-"}
KeepChar(ch) == ~IsSepChar(ch)

\* re.sub(r'[\s\.\-]+', '', s)
re_sub_seps(s) == SelectSeq(s, KeepChar)

\* re.fullmatch(prefix + r'([lo-hi])', norm): the digit matched, or None
fullmatch_digit(prefix, lo, hi, norm) ==
    IF /\ Len(norm) = Len(prefix) + 1
       /\ SubSeq(norm, 1, Len(prefix)) = prefix
       /\ \E i \in lo..hi : norm[Len(norm)] = D(i)
    THEN <<norm[Len(norm)]>>
    ELSE None

(***************************************************************************)
(* Canonical column names.                                                 *)
(***************************************************************************)
N_ID == <<"I","D">>
N_LIMIT_BAL == <<"L","I","M","I","T","_","B","A","L">>
N_LABEL == <<"d","e","f","a","u","l","t",".","p","a","y","m","e","n","t",
             ".","n","e","x","t",".","m","o","n","t","h">>
PAY(i) == <<"P","A","Y","_", D(i)>>
BILL_AMT(i) == <<"B","I","L","L","_","A","M","T", D(i)>>
PAY_AMT(i) == <<"P","A","Y","_","A","M","T", D(i)>>
N_Unnamed == <<"U","n","n","a","m","e","d">>

W_id == <<"i","d">>
W_limit == <<"l","i","m","i","t">>
W_bal == <<"b","a","l">>
W_balance == <<"b","a","l","a","n","c","e">>
W_amount == <<"a","m","o","u","n","t">>
W_default == <<"d","e","f","a","u","l","t">>
W_payment == <<"p","a","y","m","e","n","t">>
W_next == <<"n","e","x","t">>
W_month == <<"m","o","n","t","h">>
W_pay == <<"p","a","y">>
W_bill == <<"b","i","l","l">>
W_amt == <<"a","m","t">>
W_billamt == W_bill \o W_amt
W_payamt == W_pay \o W_amt
P_PAY == <<"P","A","Y","_">>
P_BILL_AMT == <<"B","I","L","L","_","A","M","T">>
P_PAY_AMT == <<"P","A","Y","_","A","M","T">>

LimitSpellings == {W_limit \o W_bal, W_limit \o W_balance,
                   W_limit \o W_amount, W_limit}
LabelSpellings == {W_default \o W_payment \o W_next \o W_month,
                   W_default \o W_payment}

(***************************************************************************)
(* _normalize_columns                                                      *)
(***************************************************************************)
\* the loop body: the new name of one column label c
NewNameOf(norm, s) ==
    IF norm = W_id THEN N_ID
    ELSE IF norm \in LimitSpellings THEN N_LIMIT_BAL
    ELSE IF norm \in LabelSpellings THEN N_LABEL
    ELSE LET m1 == fullmatch_digit(W_pay, 0, 6, norm)
             m2 == fullmatch_digit(W_billamt, 1, 6, norm)
             m3 == fullmatch_digit(W_payamt, 1, 6, norm)
         IN  IF m1 # None THEN P_PAY \o m1
             ELSE IF m2 # None THEN P_BILL_AMT \o m2
             ELSE IF m3 # None THEN P_PAY_AMT \o m3
             ELSE s

NewName(c) ==
    LET s == strip(c)
        norm == lower(re_sub_seps(s))
    IN  NewNameOf(norm, s)

\* mutant: the "Unnamed" prefix compared without regard to letter case
KeptPositions_any_case(cols) ==
    {i \in DOMAIN cols : ~startswith(lower(cols[i]), lower(N_Unnamed))}

\* positions of the columns that survive df.drop(columns=drop_unnamed)
KeptPositions(cols) == {i \in DOMAIN cols : ~startswith(cols[i], N_Unnamed)}

RECURSIVE SortedPositions(_)
SortedPositions(S) ==
    IF S = {} THEN <<>>
    ELSE LET m == CHOOSE x \in S : \A y \in S : x <= y
         IN  <<m>> \o SortedPositions(S \ {m})

\* the sub-table of the columns at positions ps (in that order)
TakeColumns(df, ps) ==
    [columns |-> Tup([k \in DOMAIN ps |-> df.columns[ps[k]]]),
     rows    |-> Tup([r \in DOMAIN df.rows |->
                    Tup([k \in DOMAIN ps |-> df.rows[r][ps[k]]])]),
     derived |-> df.derived]

RenameColumns(df) ==
    [df EXCEPT !.columns =
        Tup([i \in DOMAIN df.columns |-> NewName(df.columns[i])])]

DropUnnamed(df) ==
    TakeColumns(df, SortedPositions(KeptPositions(df.columns)))

\* mutant: drop_unnamed computed from the incoming labels, before the rename
_normalize_columns_drop_first(df) == RenameColumns(DropUnnamed(df))

_normalize_columns(df) == DropUnnamed(RenameColumns(df))


(***************************************************************************)
(* Tables and cell values.                                                 *)
(*                                                                         *)
(* Numeric cells are integers; NaN is numpy's missing value, a value of    *)
(* the numeric type that no input cell otherwise takes.                    *)
(***************************************************************************)
NaN == -1000000

NoTable == [columns |-> <<>>, rows |-> <<>>, derived |-> <<>>]

in_columns(name, df) == \E i \in DOMAIN df.columns : df.columns[i] = name

ColumnPos(df, name) == CHOOSE i \in DOMAIN df.columns : df.columns[i] = name

\* df[name] at row r
Cell(df, r, name) == df.rows[r][ColumnPos(df, name)]

\* [c for c in candidates if c in df.columns]
PresentOf(candidates, df) ==
    LET Present(c) == in_columns(c, df)
    IN  SelectSeq(candidates, Present)

\* x.fillna(0)
fillna0(v) == IF v = NaN THEN 0 ELSE v

\* np.maximum(0, v)
floor0(v) == IF v > 0 THEN v ELSE 0

\* np.maximum(0, df[cols].fillna(0).values) at row r
FlooredVals(df, r, cols) ==
    Tup([k \in DOMAIN cols |-> floor0(fillna0(Cell(df, r, cols[k])))])

\* (vals > 0).sum(axis=1)
CountPositive(vals) == Cardinality({k \in DOMAIN vals : vals[k] > 0})

\* vals.max(axis=1)
RowMax(vals) == CHOOSE m \in {vals[k] : k \in DOMAIN vals} :
                    \A k \in DOMAIN vals : vals[k] <= m

Abs(x) == IF x < 0 THEN -x ELSE x

RECURSIVE SumSeq(_)
SumSeq(s) == IF s = <<>> THEN 0 ELSE Head(s) + SumSeq(Tail(s))

(***************************************************************************)
(* safe_div(a, b) = a / (|b| + eps), eps = 1e-6.  The quotient is kept as  *)
(* the pair [a, b] standing for a / (b + eps), b >= 0; comparisons are     *)
(* decided exactly for integer amounts below 10^5 (0 < 7*eps < 1 and       *)
(* eps * |a1 - a2| < 1).  NaN (a missing operand) is [a |-> NaN, b |-> 0]. *)
(***************************************************************************)
NaNRatio == [a |-> NaN, b |-> 0]

safe_div(a, b) ==
    IF a = NaN \/ b = NaN THEN NaNRatio ELSE [a |-> a, b |-> Abs(b)]

RatioIsNaN(q) == q.a = NaN

\* mutant: the quotient taken without the 1e-6 guard, 0/0 not below 0.7
RatioLt07_unguarded(q) == ~RatioIsNaN(q) /\ 10 * q.a < 7 * q.b

\* q < 0.7  <=>  10*a < 7*b + 7*eps  <=>  10*a <= 7*b   (NaN < 0.7 is False)
RatioLt07(q) == ~RatioIsNaN(q) /\ 10 * q.a <= 7 * q.b

\* p < q for two numbers: a1*(b2+eps) < a2*(b1+eps)
RatioLess(p, q) ==
    LET x == p.a * q.b - q.a * p.b
    IN  x < 0 \/ (x = 0 /\ p.a < q.a)

RatioEq(p, q) ==
    p.a * q.b - q.a * p.b = 0 /\ p.a = q.a

(***************************************************************************)
(* bill_trend_up (lines 412-419).  With n bill columns b_1..b_n, idx the   *)
(* z-scored 1..n and bill_std the row's z-scored bills, bill_std @ idx is  *)
(*    Sxy / ((std_b + 1e-6) * (std_i + 1e-6)),                             *)
(* Sxy = sum (b_k - mean_b)(k - mean_i).  In integers, with                *)
(*    C  = n*sum(k*b_k) - sum(b)*sum(k)   (= n * Sxy)                      *)
(*    VB = n*sum(b_k^2) - sum(b)^2        (= (n * std_b)^2)                *)
(*    VI = n*sum(k^2)   - sum(k)^2        (= (n * std_i)^2)                *)
(* the test "> 0.3" is  C > 0 /\ 100*n^2*C^2 > 9*VB*VI; the two 1e-6 terms *)
(* only make the right-hand side larger by a relative 1e-5 and cannot turn *)
(* a strict integer inequality of this size.  A NaN bill makes the product *)
(* NaN, and NaN > 0.3 is False.                                            *)
(***************************************************************************)
TrendUp(b) ==
    LET n  == Len(b)
        ks == [k \in 1..n |-> k]
        C  == n * SumSeq([k \in 1..n |-> k * b[k]]) - SumSeq(b) * SumSeq(ks)
        VB == n * SumSeq([k \in 1..n |-> b[k] * b[k]]) - SumSeq(b) * SumSeq(b)
        VI == n * SumSeq([k \in 1..n |-> k * k]) - SumSeq(ks) * SumSeq(ks)
    IN  /\ \A k \in 1..n : b[k] # NaN
        /\ C > 0
        /\ 100 * n * n * C * C > 9 * VB * VI

bill_trend_up(df, r, bill_cols) ==
    IF Len(bill_cols) >= 3
    THEN TrendUp(Tup([k \in DOMAIN bill_cols |-> Cell(df, r, bill_cols[k])]))
    ELSE FALSE

\* .astype(int) of a boolean
AsInt(b) == IF b THEN 1 ELSE 0

(***************************************************************************)
(* compute_features: validation (lines 386-401)                            *)
(***************************************************************************)
must_have == <<N_ID, N_LIMIT_BAL, N_LABEL>>
pay_candidates == Tup([i \in 1..7 |-> PAY(i - 1)])
bill_candidates == Tup([i \in 1..6 |-> BILL_AMT(i)])

pay_cols_of(df) == PresentOf(pay_candidates, df)

\* mutant: the [:3] cut of the recent window forgotten
recent3_uncut(df) == pay_cols_of(df)

\* mutant: the last three present PAY_* columns taken instead of the first
recent3_latest(df) ==
    LET p == pay_cols_of(df)
    IN  SubSeq(p, IF Len(p) < 3 THEN 1 ELSE Len(p) - 2, Len(p))

\* recent3 = [c for c in recent_preference if c in pay_cols][:3]
recent3_of(df) ==
    LET p == pay_cols_of(df)
    IN  SubSeq(p, 1, IF Len(p) < 3 THEN Len(p) ELSE 3)

bill_cols_of(df) == PresentOf(bill_candidates, df)

\* mutant: two PAY_* columns accepted
ValidationError_two_pay(df) ==
    IF \E k \in DOMAIN must_have : ~in_columns(must_have[k], df)
    THEN "Kolom wajib ada"
    ELSE IF Len(pay_cols_of(df)) < 2
    THEN "Kolom PAY_* terlalu sedikit"
    ELSE IF ~(in_columns(BILL_AMT(1), df) /\ in_columns(PAY_AMT(1), df))
    THEN "Perlu kolom BILL_AMT1 dan PAY_AMT1."
    ELSE ""

\* the message of the ValueError compute_features raises on df, "" if none
ValidationError(df) ==
    IF \E k \in DOMAIN must_have : ~in_columns(must_have[k], df)
    THEN "Kolom wajib ada"
    ELSE IF Len(pay_cols_of(df)) < 3
    THEN "Kolom PAY_* terlalu sedikit"
    ELSE IF ~(in_columns(BILL_AMT(1), df) /\ in_columns(PAY_AMT(1), df))
    THEN "Perlu kolom BILL_AMT1 dan PAY_AMT1."
    ELSE ""

(***************************************************************************)
(* compute_features: features, score, bucket, action (lines 403-453)       *)
(***************************************************************************)
\* mutant: count_telat_3m weighted 1 instead of 2
edrs_score_unweighted(f) ==
    f.count_telat_3m
    + AsInt(f.count_telat_6m >= 3)
    + AsInt(f.max_tunggakan_6m >= 2)
    + AsInt(RatioLt07(f.ratio_bayar_last))
    + AsInt(f.bill_trend_up)
    + AsInt(f.dpd_proxy_now >= 1)
    + AsInt(f.streak_telat2plus >= 1)

\* mutant: the streak term left out of the score
edrs_score_no_streak(f) ==
    2 * f.count_telat_3m
    + AsInt(f.count_telat_6m >= 3)
    + AsInt(f.max_tunggakan_6m >= 2)
    + AsInt(RatioLt07(f.ratio_bayar_last))
    + AsInt(f.bill_trend_up)
    + AsInt(f.dpd_proxy_now >= 1)

edrs_score(f) ==
    2 * f.count_telat_3m
    + AsInt(f.count_telat_6m >= 3)
    + AsInt(f.max_tunggakan_6m >= 2)
    + AsInt(RatioLt07(f.ratio_bayar_last))
    + AsInt(f.bill_trend_up)
    + AsInt(f.dpd_proxy_now >= 1)
    + AsInt(f.streak_telat2plus >= 1)

\* mutant: exclusive lower bounds
to_bucket_exclusive(s) ==
    IF s > 6 THEN "Very High"
    ELSE IF s > 4 THEN "High"
    ELSE IF s > 2 THEN "Med"
    ELSE IF s > 1 THEN "Low"
    ELSE "Very Low"

\* mutant: the labels of the two middle tiers exchanged
to_bucket_swapped(s) ==
    IF s >= 6 THEN "Very High"
    ELSE IF s >= 4 THEN "Med"
    ELSE IF s >= 2 THEN "High"
    ELSE IF s >= 1 THEN "Low"
    ELSE "Very Low"

to_bucket(s) ==
    IF s >= 6 THEN "Very High"
    ELSE IF s >= 4 THEN "High"
    ELSE IF s >= 2 THEN "Med"
    ELSE IF s >= 1 THEN "Low"
    ELSE "Very Low"

\* mutant: the Very Low bucket given the Low bucket's action
nba_reminder_for_very_low(bucket) ==
    CASE bucket = "Very High" ->
            "Telepon atau WA hari ini dan lakukan opsi reschedule bila diperlukan"
      [] bucket = "High" -> "Telepon hari ini dan follow-up dengan WA dalam 2 hari"
      [] bucket = "Med" -> "WA reminder dan follow-up dalam 2 hari"
      [] bucket = "Low" -> "WA otomatis atau reminder mingguan"
      [] bucket = "Very Low" -> "WA otomatis atau reminder mingguan"

nba(bucket) ==
    CASE bucket = "Very High" ->
            "Telepon atau WA hari ini dan lakukan opsi reschedule bila diperlukan"
      [] bucket = "High" -> "Telepon hari ini dan follow-up dengan WA dalam 2 hari"
      [] bucket = "Med" -> "WA reminder dan follow-up dalam 2 hari"
      [] bucket = "Low" -> "WA otomatis atau reminder mingguan"
      [] bucket = "Very Low" -> "Tidak ada tindakan atau mass reminder"

\* the feature columns of row r (lines 403-423)
Features(df, r) ==
    LET recent3 == recent3_of(df)
        pay_cols == pay_cols_of(df)
        recent_vals == FlooredVals(df, r, recent3)
        pay_mat == FlooredVals(df, r, pay_cols)
        dpd_proxy_source == IF in_columns(PAY(0), df) THEN PAY(0) ELSE recent3[1]
        dpd == Cell(df, r, dpd_proxy_source)
    IN  [count_telat_3m    |-> CountPositive(recent_vals),
         count_telat_6m    |-> CountPositive(pay_mat),
         max_tunggakan_6m  |-> RowMax(pay_mat),
         ratio_bayar_last  |-> safe_div(Cell(df, r, PAY_AMT(1)),
                                        Cell(df, r, BILL_AMT(1))),
         bill_trend_up     |-> bill_trend_up(df, r, bill_cols_of(df)),
         dpd_proxy_now     |-> AsInt(dpd # NaN /\ dpd > 0),
         streak_telat2plus |->
             AsInt(Cardinality({k \in DOMAIN recent_vals : recent_vals[k] >= 2}) >= 1)]

\* all derived columns of row r (lines 403-453)
Derived(df, r) ==
    LET f == Features(df, r)
        s == edrs_score(f)
    IN  [count_telat_3m    |-> f.count_telat_3m,
         count_telat_6m    |-> f.count_telat_6m,
         max_tunggakan_6m  |-> f.max_tunggakan_6m,
         ratio_bayar_last  |-> f.ratio_bayar_last,
         bill_trend_up     |-> f.bill_trend_up,
         dpd_proxy_now     |-> f.dpd_proxy_now,
         streak_telat2plus |-> f.streak_telat2plus,
         edrs_score        |-> s,
         bucket            |-> to_bucket(s),
         next_best_action  |-> nba(to_bucket(s))]

\* df after lines 403-453: every row carries its derived columns
WithDerived(df) ==
    [df EXCEPT !.derived = Tup([r \in DOMAIN df.rows |-> Derived(df, r)])]

(***************************************************************************)
(* compute_features: the views (lines 455-468)                             *)
(***************************************************************************)
bucket_order == <<"Very High", "High", "Med", "Low", "Very Low">>

\* the code of a bucket in pd.Categorical(categories=bucket_order, ordered=True)
bucket_code(b) == CHOOSE k \in DOMAIN bucket_order : bucket_order[k] = b

\* the sub-table of the rows at positions idx (in that order), re-indexed
TakeRows(df, idx) ==
    [columns |-> df.columns,
     rows    |-> Tup([k \in DOMAIN idx |-> df.rows[idx[k]]]),
     derived |-> Tup([k \in DOMAIN idx |-> df.derived[idx[k]]])]

\* out = df[cols_keep].copy(); out["bucket_cat"] = pd.Categorical(...)
MakeOut(df) ==
    LET kept == <<ColumnPos(df, N_ID), ColumnPos(df, N_LIMIT_BAL),
                  ColumnPos(df, N_LABEL)>>
        t == TakeColumns(df, kept)
    IN  [t EXCEPT !.derived =
            Tup([r \in DOMAIN df.rows |->
                df.derived[r] @@
                [bucket_cat |-> bucket_code(df.derived[r].bucket)]])]

\* ratio_bayar_last ascending, NaN last (na_position='last')
RatioBefore(p, q) ==
    IF RatioIsNaN(p) THEN FALSE
    ELSE IF RatioIsNaN(q) THEN TRUE
    ELSE RatioLess(p, q)

RatioSame(p, q) ==
    IF RatioIsNaN(p) \/ RatioIsNaN(q) THEN RatioIsNaN(p) /\ RatioIsNaN(q)
    ELSE RatioEq(p, q)

\* a sorts strictly before b under sort_keys with
\* ascending=[True, False, False, True]
SortsBefore(a, b) ==
    \/ a.bucket_cat < b.bucket_cat
    \/ /\ a.bucket_cat = b.bucket_cat
       /\ \/ a.edrs_score > b.edrs_score
          \/ /\ a.edrs_score = b.edrs_score
             /\ \/ a.dpd_proxy_now > b.dpd_proxy_now
                \/ /\ a.dpd_proxy_now = b.dpd_proxy_now
                   /\ RatioBefore(a.ratio_bayar_last, b.ratio_bayar_last)

\* mutant: an unstable sort, a row goes ahead of the earlier rows it ties with
RECURSIVE SortedIndex_unstable(_, _)
SortedIndex_unstable(d, n) ==
    IF n = 0 THEN <<>>
    ELSE LET s == SortedIndex_unstable(d, n - 1)
             k == Cardinality({j \in DOMAIN s : SortsBefore(d[s[j]], d[n])})
         IN  SubSeq(s, 1, k) \o <<n>> \o SubSeq(s, k + 1, Len(s))

\* the stable sort of positions 1..n of d: position n goes behind every
\* earlier row that does not sort strictly after it
RECURSIVE SortedIndex(_, _)
SortedIndex(d, n) ==
    IF n = 0 THEN <<>>
    ELSE LET s == SortedIndex(d, n - 1)
             k == Cardinality({j \in DOMAIN s : ~SortsBefore(d[n], d[s[j]])})
         IN  SubSeq(s, 1, k) \o <<n>> \o SubSeq(s, k + 1, Len(s))

\* mutant: only the first row of the sorted table is kept
sort_values_head(t) ==
    TakeRows(t, SubSeq(SortedIndex(t.derived, Len(t.rows)), 1, 1))

\* out.sort_values(sort_keys, ascending=[...]).reset_index(drop=True)
sort_values(t) == TakeRows(t, SortedIndex(t.derived, Len(t.rows)))

\* mutant: only the Very High rows kept
FilterTop_very_high_only(t) ==
    TakeRows(t, SortedPositions({r \in DOMAIN t.rows :
                    t.derived[r].bucket \in {"Very High"}}))

\* t[t["bucket"].isin(["Very High","High"])].reset_index(drop=True)
FilterTop(t) ==
    TakeRows(t, SortedPositions({r \in DOMAIN t.rows :
                    t.derived[r].bucket \in {"Very High", "High"}}))

(***************************************************************************)
(* compute_features as a whole: what the call leaves and returns.          *)
(***************************************************************************)
\* the call raised ValueError(msg): nothing is returned
Raised(df, msg) ==
    [error |-> msg, df |-> df, out |-> NoTable, top_prior |-> NoTable,
     top_prior_all |-> NoTable]

\* return df, out, top_prior, top_prior_all
Returned(df) ==
    LET o == MakeOut(df)
        all == sort_values(o)
    IN  [error |-> "", df |-> df, out |-> o, top_prior |-> FilterTop(all),
         top_prior_all |-> all]

\* mutant: the BILL_AMT1/PAY_AMT1 check placed after the first derived column
compute_features_late_check(df) ==
    IF ValidationError(df) = "Perlu kolom BILL_AMT1 dan PAY_AMT1."
    THEN Raised([df EXCEPT !.derived =
                    Tup([r \in DOMAIN df.rows |->
                        [count_telat_3m |->
                            CountPositive(FlooredVals(df, r, recent3_of(df)))]])],
                ValidationError(df))
    ELSE IF ValidationError(df) # ""
    THEN Raised(df, ValidationError(df))
    ELSE Returned(WithDerived(df))

compute_features(df) ==
    IF ValidationError(df) # ""
    THEN Raised(df, ValidationError(df))
    ELSE Returned(WithDerived(df))

\* _read_file_any for delimited text: pd.read_csv, then _normalize_columns
_read_file_any(f) == _normalize_columns(f)

(***************************************************************************)
(* Input tables.                                                           *)
(***************************************************************************)
MkTable(cols, rows) ==
    [columns |-> cols, rows |-> rows,
     derived |-> Tup([r \in DOMAIN rows |-> <<>>])]

PayVals == (-1..MaxPay) \cup {NaN}
OldPayVals == {0, MaxPay}
BillVals == {0, 10}
Bill1Vals == {0, 7, 10, NaN}
AmtVals == {0, 7, 10, NaN}

\* one account, the UCI layout cut to four status and three bill columns
AccountCols ==
    <<N_ID, N_LIMIT_BAL, PAY(0), PAY(2), PAY(3), PAY(4),
      BILL_AMT(1), BILL_AMT(2), BILL_AMT(3), PAY_AMT(1), N_LABEL>>

IsAccountTable(t) ==
    \E p \in [1..3 -> PayVals], p4 \in OldPayVals, b1 \in Bill1Vals,
       b \in [1..2 -> BillVals], a \in AmtVals :
        t = MkTable(AccountCols,
                    << <<1, 50, p[1], p[2], p[3], p4, b1, b[1], b[2], a, 0>> >>)

\* a portfolio of up to MaxRows accounts, three status columns, one bill
PortfolioCols ==
    <<N_ID, N_LIMIT_BAL, PAY(0), PAY(2), PAY(3), BILL_AMT(1), PAY_AMT(1),
      N_LABEL>>

\* <<PAY_0, PAY_2, PAY_AMT1, BILL_AMT1>>
PortfolioAccounts ==
    {<<p0, p2, ab[1], ab[2]>> :
        p0 \in 0..2, p2 \in 0..2,
        ab \in {<<0, 10>>, <<10, 10>>, <<7, 0>>}}

IsPortfolioTable(t) ==
    \E n \in 1..MaxRows : \E accts \in [1..n -> PortfolioAccounts] :
        t = MkTable(PortfolioCols,
                    [i \in 1..n |->
                        <<i, 50, accts[i][1], accts[i][2], 0, accts[i][4],
                          accts[i][3], 0>>])

\* one account under every choice of which columns the file holds
N_LABEL_XLS == <<"d","e","f","a","u","l","t"," ","p","a","y","m","e","n","t",
                 " ","n","e","x","t"," ","m","o","n","t","h">>

IsSchemaTable(t) ==
    \E has \in [1..4 -> BOOLEAN], S \in SUBSET (0..6),
       lab \in {<<>>, <<N_LABEL>>, <<N_LABEL_XLS>>} :
        LET ps == SortedPositions(S)
            cols == (IF has[1] THEN <<N_ID>> ELSE <<>>)
                 \o (IF has[2] THEN <<N_LIMIT_BAL>> ELSE <<>>)
                 \o [k \in DOMAIN ps |-> PAY(ps[k])]
                 \o (IF has[3] THEN <<BILL_AMT(1)>> ELSE <<>>)
                 \o <<BILL_AMT(2), BILL_AMT(3)>>
                 \o (IF has[4] THEN <<PAY_AMT(1)>> ELSE <<>>)
                 \o lab
            vals == (IF has[1] THEN <<1>> ELSE <<>>)
                 \o (IF has[2] THEN <<50>> ELSE <<>>)
                 \o [k \in DOMAIN ps |-> ps[k] % 3]
                 \o (IF has[3] THEN <<10>> ELSE <<>>)
                 \o <<10, 10>>
                 \o (IF has[4] THEN <<7>> ELSE <<>>)
                 \o [k \in DOMAIN lab |-> 0]
        IN  t = MkTable(cols, <<vals>>)

(***************************************************************************)
(* The pipeline (lines 722-724): load_data, then compute_features on a     *)
(* copy; a ValueError reaches the top-level handler (line 813).            *)
(***************************************************************************)
Init ==
    /\ pc = "file"
    /\ \/ IsAccountTable(file)
       \/ IsPortfolioTable(file)
       \/ IsSchemaTable(file)
    /\ raw_df = NoTable
    /\ base_df = NoTable
    /\ out = NoTable
    /\ top_prior = NoTable
    /\ top_prior_all = NoTable
    /\ err = ""
    /\ prev_df = NoTable
    /\ n_calls = 0
    /\ hdr = 0
    /\ index = <<>>
    /\ cache_files = <<>>
    /\ last_call = None

load_data ==
    /\ pc = "file"
    /\ raw_df' = _read_file_any(file)
    /\ pc' = "loaded"
    /\ UNCHANGED <<file, base_df, out, top_prior, top_prior_all, err,
                   prev_df, n_calls, hdr, index, cache_files, last_call>>

ComputeFeatures ==
    /\ pc = "loaded"
    /\ LET res == compute_features(raw_df)
       IN  /\ base_df' = res.df
           /\ out' = res.out
           /\ top_prior' = res.top_prior
           /\ top_prior_all' = res.top_prior_all
           /\ err' = res.error
           /\ pc' = IF res.error = "" THEN "done" ELSE "error"
    /\ UNCHANGED <<file, raw_df, prev_df, n_calls, hdr, index, cache_files,
                   last_call>>

Next == load_data \/ ComputeFeatures

Spec == Init /\ [][Next]_vars

(***************************************************************************)
(* The normalizer alone: headers spelled in mixed case and punctuation,    *)
(* _normalize_columns applied to its own output.                           *)
(***************************************************************************)
W_age == <<"a","g","e">>
W_unnamed == <<"u","n","n","a","m","e","d",":">>

\* the spellings a header is drawn from, each a list of words
HeaderWords ==
    << <<W_id>>, <<W_limit, W_bal>>, <<W_limit, W_balance>>,
       <<W_limit, W_amount>>, <<W_limit>>,
       <<W_default, W_payment, W_next, W_month>>, <<W_default, W_payment>>,
       <<W_pay, <<"0">> >>, <<W_pay, <<"6">> >>, <<W_pay, <<"7">> >>,
       <<W_bill, W_amt, <<"0">> >>, <<W_bill, W_amt, <<"1">> >>,
       <<W_bill, W_amt, <<"6">> >>, <<W_bill, W_amt, <<"7">> >>,
       <<W_pay, W_amt, <<"0">> >>, <<W_pay, W_amt, <<"1">> >>,
       <<W_pay, W_amt, <<"6">> >>, <<W_pay, W_amt, <<"7">> >>,
       <<W_age>>, <<W_unnamed, <<"0">> >> >>

CaseStyles == {"lower", "UPPER", "Title"}
Separators == {<<>>, <<" ">>, <<".">>, <<"-">>, <<"_">>}
Paddings == {<<>>, <<" ">>}

StyleWord(w, style) ==
    IF style = "UPPER" THEN Tup([i \in DOMAIN w |-> upper_char(w[i])])
    ELSE IF style = "Title" THEN <<upper_char(Head(w))>> \o Tail(w)
    ELSE w

RECURSIVE JoinWords(_, _, _)
JoinWords(words, style, sep) ==
    IF Len(words) = 1 THEN StyleWord(words[1], style)
    ELSE StyleWord(words[1], style) \o sep \o JoinWords(Tail(words), style, sep)

\* a column label as a file may spell it
Spell(words, style, sep, pad) == pad \o JoinWords(words, style, sep) \o pad

IsHeaderTable(t) ==
    \E n \in 1..MaxCols, style \in CaseStyles, sep \in Separators,
       pad \in Paddings :
        \E ps \in [1..n -> DOMAIN HeaderWords] :
            /\ \A k \in 1..(n - 1) : ps[k] < ps[k + 1]
            /\ t = MkTable(Tup([k \in 1..n |->
                                  Spell(HeaderWords[ps[k]], style, sep, pad)]),
                           <<ps>>)

InitNorm ==
    /\ pc = "norm"
    /\ IsHeaderTable(file)
    /\ raw_df = file
    /\ base_df = NoTable
    /\ out = NoTable
    /\ top_prior = NoTable
    /\ top_prior_all = NoTable
    /\ err = ""
    /\ prev_df = NoTable
    /\ n_calls = 0
    /\ hdr = 0
    /\ index = <<>>
    /\ cache_files = <<>>
    /\ last_call = None

\* df = _normalize_columns(df)
NormalizeColumns ==
    /\ pc = "norm"
    /\ n_calls < MaxCalls
    /\ prev_df' = raw_df
    /\ raw_df' = _normalize_columns(raw_df)
    /\ n_calls' = n_calls + 1
    /\ UNCHANGED <<pc, file, base_df, out, top_prior, top_prior_all, err,
                   hdr, index, cache_files, last_call>>

NextNorm == NormalizeColumns

SpecNorm == InitNorm /\ [][NextNorm]_vars

(***************************************************************************)
(* Spreadsheet input (lines 351-359): _read_file_any tries the header-row  *)
(* candidates 0 and 1, then falls back to header row 0.  A sheet is        *)
(* [grid, raises]: the cells by row, every cell a label (<<>> an empty     *)
(* cell), and the header arguments for which pd.read_excel raises.         *)
(***************************************************************************)
header_candidates == <<0, 1>>

N_X1 == <<"X", "1">>

\* what a cell of the first two rows of a sheet may hold
SheetLabels == {<<>>, W_id, N_LIMIT_BAL, N_X1}

\* the label pandas gives the column of an empty header cell ("Unnamed: 0")
UnnamedLabel(k) == N_Unnamed \o <<":", " ", D(k - 1)>>

\* pd.read_excel(path, header=h): row h of the sheet names the columns, the
\* rows above it are skipped and the rows below it are the data
read_excel(sheet, h) ==
    LET head == sheet.grid[h + 1]
    IN  MkTable(Tup([k \in DOMAIN head |->
                        IF head[k] = <<>> THEN UnnamedLabel(k) ELSE head[k]]),
                SubSeq(sheet.grid, h + 2, Len(sheet.grid)))

\* mutant: a candidate with an ID column alone is accepted
AcceptsHeader_id_only(df) == in_columns(N_ID, df)

\* {'ID','LIMIT_BAL'}.issubset(df.columns)
AcceptsHeader(df) == in_columns(N_ID, df) /\ in_columns(N_LIMIT_BAL, df)

IsSheet(f) ==
    \E n \in 1..MaxCols :
        \E r0 \in [1..n -> SheetLabels], r1 \in [1..n -> SheetLabels],
           bad \in SUBSET {0, 1} :
            f = [grid |-> <<Tup(r0), Tup(r1), Tup([k \in 1..n |-> <<D(k)>>])>>,
                 raises |-> bad]

InitXls ==
    /\ pc = "xls_loop"
    /\ IsSheet(file)
    /\ hdr = header_candidates[1]
    /\ raw_df = NoTable
    /\ base_df = NoTable
    /\ out = NoTable
    /\ top_prior = NoTable
    /\ top_prior_all = NoTable
    /\ err = ""
    /\ prev_df = NoTable
    /\ n_calls = 0
    /\ index = <<>>
    /\ cache_files = <<>>
    /\ last_call = None

\* one pass of "for hdr in (0,1)": read, normalize, return if accepted; an
\* exception of the read is swallowed and the loop goes on
TryHeader ==
    /\ pc = "xls_loop"
    /\ IF hdr \notin file.raises
          /\ AcceptsHeader(_normalize_columns(read_excel(file, hdr)))
       THEN /\ raw_df' = _normalize_columns(read_excel(file, hdr))
            /\ pc' = "loaded"
            /\ hdr' = hdr
       ELSE /\ raw_df' = raw_df
            /\ IF hdr = header_candidates[Len(header_candidates)]
               THEN pc' = "xls_fallback" /\ hdr' = hdr
               ELSE pc' = "xls_loop" /\ hdr' = hdr + 1
    /\ UNCHANGED <<file, base_df, out, top_prior, top_prior_all, err,
                   prev_df, n_calls, index, cache_files, last_call>>

\* after the loop: pd.read_excel(path, header=0), whose exception is not
\* caught here
ReadHeaderZero ==
    /\ pc = "xls_fallback"
    /\ IF 0 \in file.raises
       THEN /\ pc' = "error"
            /\ err' = "read_excel"
            /\ raw_df' = raw_df
       ELSE /\ pc' = "loaded"
            /\ err' = err
            /\ raw_df' = _normalize_columns(read_excel(file, 0))
    /\ UNCHANGED <<file, base_df, out, top_prior, top_prior_all, prev_df,
                   n_calls, hdr, index, cache_files, last_call>>

NextXls == TryHeader \/ ReadHeaderZero

SpecXls == InitXls /\ [][NextXls]_vars

(***************************************************************************)
(* The narrative cache (lines 253-270, 514-528, 577-596).  A text is a     *)
(* sequence of sentences, <<>> the empty string.  index.json is a function *)
(* from the IDs it holds to [sig, path]; the cache directory is a function *)
(* from the paths of its files to their texts.  A SHA-1 digest is modelled *)
(* as a sequence that determines (ID, insight text, prompt version) and    *)
(* whose first element stands for its first 8 hex digits, which alone do   *)
(* not determine the insight text.                                         *)
(***************************************************************************)
PROMPT_VERSION == "v5-assertive-collateral"

CacheIDs == {1, 2}
InsightTexts == {1, 2, 3}

\* the scored rows a conclusion is asked for
ScoredRows ==
    { [bucket |-> "Very High", dpd_proxy_now |-> 1, edrs_score |-> 7,
       ratio_bayar_last |-> [a |-> 0, b |-> 10]],
      [bucket |-> "Med", dpd_proxy_now |-> 0, edrs_score |-> 2,
       ratio_bayar_last |-> NaNRatio] }

\* what one _call_gemini call returns: the stripped text, "" on any failure
Drafts == {<<>>, <<"draft">>}
Finals == {<<>>, <<"final">>}

\* the try block of the cache write: both writes done, p.write_text raised,
\* or _save_index raised after the file was written
WriteOutcomes == {"ok", "file_error", "index_error"}

_insight_signature(id_val, insight_text) ==
    <<(id_val + insight_text) % 2, insight_text, id_val, PROMPT_VERSION>>

\* CACHE_DIR / f"ID-{id_val}-SIG-{sig[:8]}.txt"
_cache_file(id_val, sig) == <<id_val, sig[1]>>

_fallback_conclusion(row_skor) ==
    (IF row_skor.bucket \in {"Very High", "High"}
     THEN <<"Risiko gagal bayar tinggi", "Sebagai langkah awal">>
     ELSE <<"Risiko berada pada tingkat menengah atau lebih rendah">>)
    \o (IF row_skor.dpd_proxy_now >= 1 THEN <<"Status DPD saat ini">> ELSE <<>>)
    \o (IF RatioLt07(row_skor.ratio_bayar_last)
        THEN <<"Rasio pembayaran terakhir">> ELSE <<>>)
    \o <<"Dasar hukum", "Apabila debitur tetap mengelak",
         "Karena adanya pasal sanksi", "Izinkan tim collection">>

\* mutant: the entry of the ID served whatever its signature
CacheHit_by_id(idx, files, id_val, sig) ==
    /\ id_val \in DOMAIN idx
    /\ idx[id_val].path \in DOMAIN files

\* the cache lookup of lines 579-583: the entry of this ID has this
\* signature and its file exists
CacheHit(idx, files, id_val, sig) ==
    /\ id_val \in DOMAIN idx
    /\ idx[id_val].sig = sig
    /\ idx[id_val].path \in DOMAIN files

\* a variant that returns the fallback text of a stage-2 failure without
\* writing it to the cache
get_or_generate_conclusion_uncached(idx, files, id_val, row_skor, insight_text, svc) ==
    LET sig == _insight_signature(id_val, insight_text)
        p == _cache_file(id_val, sig)
        stored == svc.write = "ok" /\ svc.final # <<>>
        written == svc.write \in {"ok", "index_error"} /\ svc.final # <<>>
        text == IF svc.final # <<>> THEN svc.final
                ELSE _fallback_conclusion(row_skor)
    IN  IF CacheHit(idx, files, id_val, sig)
        THEN [text |-> files[idx[id_val].path], index |-> idx,
              files |-> files, n_service |-> 0,
              draft1 |-> None, final |-> None, write |-> "none"]
        ELSE IF svc.draft1 = <<>>
        THEN [text |-> _fallback_conclusion(row_skor), index |-> idx,
              files |-> files, n_service |-> 1,
              draft1 |-> svc.draft1, final |-> None, write |-> "none"]
        ELSE [text |-> text,
              index |-> IF stored
                        THEN (id_val :> [sig |-> sig, path |-> p]) @@ idx
                        ELSE idx,
              files |-> IF written THEN (p :> text) @@ files ELSE files,
              n_service |-> 2,
              draft1 |-> svc.draft1, final |-> svc.final, write |-> svc.write]

\* one call: the text returned, the index and the files it leaves, the
\* number of service calls made and the service answers it consumed
get_or_generate_conclusion(idx, files, id_val, row_skor, insight_text, svc) ==
    LET sig == _insight_signature(id_val, insight_text)
        p == _cache_file(id_val, sig)
        text == IF svc.final # <<>> THEN svc.final
                ELSE _fallback_conclusion(row_skor)
    IN  IF CacheHit(idx, files, id_val, sig)
        THEN [text |-> files[idx[id_val].path], index |-> idx,
              files |-> files, n_service |-> 0,
              draft1 |-> None, final |-> None, write |-> "none"]
        ELSE IF svc.draft1 = <<>>
        THEN [text |-> _fallback_conclusion(row_skor), index |-> idx,
              files |-> files, n_service |-> 1,
              draft1 |-> svc.draft1, final |-> None, write |-> "none"]
        ELSE [text |-> text,
              index |-> IF svc.write = "ok"
                        THEN (id_val :> [sig |-> sig, path |-> p]) @@ idx
                        ELSE idx,
              files |-> IF svc.write \in {"ok", "index_error"}
                        THEN (p :> text) @@ files
                        ELSE files,
              n_service |-> 2,
              draft1 |-> svc.draft1, final |-> svc.final, write |-> svc.write]

InitCache ==
    /\ pc = "cache"
    /\ file = NoTable
    /\ raw_df = NoTable
    /\ base_df = NoTable
    /\ out = NoTable
    /\ top_prior = NoTable
    /\ top_prior_all = NoTable
    /\ err = ""
    /\ prev_df = NoTable
    /\ n_calls = 0
    /\ hdr = 0
    /\ index = <<>>
    /\ cache_files = <<>>
    /\ last_call = None

\* kesimpulan_text = get_or_generate_conclusion(id_value, row_raw, row_skor,
\* insight_text), line 808
GetOrGenerateConclusion ==
    /\ pc = "cache"
    /\ n_calls < MaxConclusions
    /\ \E id_val \in CacheIDs, insight_text \in InsightTexts,
          row_skor \in ScoredRows, d1 \in Drafts, fin \in Finals,
          w \in WriteOutcomes :
        LET res == get_or_generate_conclusion(index, cache_files, id_val,
                        row_skor, insight_text,
                        [draft1 |-> d1, final |-> fin, write |-> w])
        IN  \* no answer is drawn for a call or a write that is not made
            /\ CacheHit(index, cache_files, id_val,
                        _insight_signature(id_val, insight_text))
                    => d1 = <<>>
            /\ d1 = <<>> => (fin = <<>> /\ w = "ok")
            /\ index' = res.index
            /\ cache_files' = res.files
            /\ last_call' = [id |-> id_val, insight |-> insight_text,
                             row |-> row_skor, text |-> res.text,
                             n_service |-> res.n_service,
                             draft1 |-> res.draft1, final |-> res.final,
                             write |-> res.write]
    /\ n_calls' = n_calls + 1
    /\ UNCHANGED <<pc, file, raw_df, base_df, out, top_prior, top_prior_all,
                   err, prev_df, hdr>>

\* a cache file removed from the directory between two calls (what the
\* p.exists() test of line 581 is there for)
RemoveCacheFile ==
    /\ pc = "cache"
    /\ \E p \in DOMAIN cache_files :
        cache_files' = [q \in DOMAIN cache_files \ {p} |-> cache_files[q]]
    /\ UNCHANGED <<pc, file, raw_df, base_df, out, top_prior, top_prior_all,
                   err, prev_df, n_calls, hdr, index, last_call>>

NextCache == GetOrGenerateConclusion \/ RemoveCacheFile

SpecCache == InitCache /\ [][NextCache]_vars

(***************************************************************************)
(* Properties.                                                             *)
(***************************************************************************)
\* the bracket [cond] of the scoring formula
Ind(cond) == IF cond THEN 1 ELSE 0

Rows(t) == DOMAIN t.rows

\* C1: for every record compute_features accepts, edrs_score equals
\* 2*count_telat_3m + [count_telat_6m >= 3] + [max_tunggakan_6m >= 2]
\* + [ratio_bayar_last < 0.7] + [bill_trend_up] + [dpd_proxy_now >= 1]
\* + [streak_telat2plus >= 1], over the features of that same record.
C1_ScoreIsWeightedSum ==
    pc = "done" =>
        \A r \in Rows(base_df) :
            LET d == base_df.derived[r]
            IN  d.edrs_score =
                    2 * d.count_telat_3m
                    + Ind(d.count_telat_6m >= 3)
                    + Ind(d.max_tunggakan_6m >= 2)
                    + Ind(RatioLt07(d.ratio_bayar_last))
                    + Ind(d.bill_trend_up)
                    + Ind(d.dpd_proxy_now >= 1)
                    + Ind(d.streak_telat2plus >= 1)

\* an accepted account with two recent late months, a rising bill trend and
\* a last payment of at least 70% of the bill, the other terms mixed
C1_Witness ==
    /\ pc = "done"
    /\ \E r \in Rows(base_df) :
        LET d == base_df.derived[r]
        IN  /\ d.count_telat_3m = 2
            /\ d.count_telat_6m = 3
            /\ d.bill_trend_up
            /\ ~RatioLt07(d.ratio_bayar_last)
            /\ d.dpd_proxy_now = 0
            /\ d.edrs_score = 8

\* C2: the bucket is the step function of edrs_score with inclusive lower
\* bounds 6, 4, 2, 1 evaluated top-down, and is one of the five buckets.
C2_BucketIsStepFunction ==
    pc = "done" =>
        \A r \in Rows(base_df) :
            LET sc == base_df.derived[r].edrs_score
                b == base_df.derived[r].bucket
            IN  /\ b \in {"Very High", "High", "Med", "Low", "Very Low"}
                /\ (sc >= 6) <=> (b = "Very High")
                /\ (sc >= 4 /\ sc < 6) <=> (b = "High")
                /\ (sc >= 2 /\ sc < 4) <=> (b = "Med")
                /\ (sc = 1) <=> (b = "Low")
                /\ (sc < 1) <=> (b = "Very Low")

\* a portfolio holding an account exactly on a lower bound (score 4, High)
\* and one just below it (score 3, Med)
C2_Witness ==
    /\ pc = "done"
    /\ \E r1, r2 \in Rows(base_df) :
        /\ base_df.derived[r1].edrs_score = 4
        /\ base_df.derived[r1].bucket = "High"
        /\ base_df.derived[r2].edrs_score = 3
        /\ base_df.derived[r2].bucket = "Med"

\* C3 as stated: for every valid input table every edrs_score is an integer
\* in [0, 2*N + 5], N = 3 the number of columns of the recent window.
C3_ScoreAtMost2NPlus5 ==
    pc = "done" =>
        \A r \in Rows(base_df) : base_df.derived[r].edrs_score \in 0..(2 * 3 + 5)

\* C3 amended: for every valid input table every edrs_score is an integer in
\* [0, 2*N + 6], N = 3: the weighted count and six one-point terms.
C3_ScoreAtMost2NPlus6 ==
    pc = "done" =>
        \A r \in Rows(base_df) : base_df.derived[r].edrs_score \in 0..(2 * 3 + 6)

\* an account on which every term of the score fires
C3_Witness ==
    /\ pc = "done"
    /\ \E r \in Rows(base_df) : base_df.derived[r].edrs_score = 2 * 3 + 6

\* rank of a bucket in the order Very High > High > Med > Low > Very Low
BucketRank(b) ==
    CASE b = "Very High" -> 5
      [] b = "High" -> 4
      [] b = "Med" -> 3
      [] b = "Low" -> 2
      [] b = "Very Low" -> 1

\* C4: for any two records a and b with edrs_score(a) >= edrs_score(b), the
\* bucket of a ranks at least as high as the bucket of b.
C4_BucketMonotonicInScore ==
    pc = "done" =>
        \A a, b \in Rows(out) :
            out.derived[a].edrs_score >= out.derived[b].edrs_score
                => BucketRank(out.derived[a].bucket)
                        >= BucketRank(out.derived[b].bucket)

\* two accounts of one portfolio with different scores in different buckets
C4_Witness ==
    /\ pc = "done"
    /\ \E a, b \in Rows(out) :
        /\ out.derived[a].edrs_score > out.derived[b].edrs_score
        /\ out.derived[a].bucket = "High"
        /\ out.derived[b].bucket = "Med"

\* the composite key of C5, from the columns of a row
KeyGreater(a, b) ==
    LET ra == 6 - BucketRank(a.bucket)
        rb == 6 - BucketRank(b.bucket)
    IN  \/ ra > rb
        \/ ra = rb /\ a.edrs_score < b.edrs_score
        \/ ra = rb /\ a.edrs_score = b.edrs_score
              /\ a.dpd_proxy_now < b.dpd_proxy_now
        \/ ra = rb /\ a.edrs_score = b.edrs_score
              /\ a.dpd_proxy_now = b.dpd_proxy_now
              /\ ~RatioIsNaN(a.ratio_bayar_last)
              /\ ~RatioIsNaN(b.ratio_bayar_last)
              /\ RatioLess(b.ratio_bayar_last, a.ratio_bayar_last)

KeyEqual(a, b) ==
    /\ a.bucket = b.bucket
    /\ a.edrs_score = b.edrs_score
    /\ a.dpd_proxy_now = b.dpd_proxy_now
    /\ RatioSame(a.ratio_bayar_last, b.ratio_bayar_last)

\* the position in the input table of the row with this ID
InputPos(id) == CHOOSE i \in Rows(out) : Cell(out, i, N_ID) = id

\* C5: top_prior_all is the whole scored table ordered by (bucket rank with
\* Very High first, edrs_score descending, dpd_proxy_now descending,
\* ratio_bayar_last ascending): no row is greater than the next one under
\* this key, and rows equal on all four keys keep their input order.
C5_TopPriorAllSortedStable ==
    pc = "done" =>
        /\ Len(top_prior_all.rows) = Len(out.rows)
        /\ \A i \in Rows(out) : \E k \in Rows(top_prior_all) :
                /\ top_prior_all.rows[k] = out.rows[i]
                /\ top_prior_all.derived[k] = out.derived[i]
        /\ \A k \in Rows(top_prior_all) :
                k + 1 \in Rows(top_prior_all) =>
                    ~KeyGreater(top_prior_all.derived[k],
                                top_prior_all.derived[k + 1])
        /\ \A k, l \in Rows(top_prior_all) :
                (k < l /\ KeyEqual(top_prior_all.derived[k],
                                   top_prior_all.derived[l]))
                    => InputPos(Cell(top_prior_all, k, N_ID))
                            < InputPos(Cell(top_prior_all, l, N_ID))

\* a portfolio whose second account moves ahead of the first on the last
\* key alone (same bucket, score and dpd_proxy_now, smaller payment ratio)
C5_Witness ==
    /\ pc = "done"
    /\ Len(out.rows) >= 2
    /\ out.derived[1].bucket = out.derived[2].bucket
    /\ out.derived[1].edrs_score = out.derived[2].edrs_score
    /\ out.derived[1].dpd_proxy_now = out.derived[2].dpd_proxy_now
    /\ RatioLess(out.derived[2].ratio_bayar_last, out.derived[1].ratio_bayar_last)
    /\ \E k, l \in Rows(top_prior_all) :
        /\ k < l
        /\ Cell(top_prior_all, k, N_ID) = Cell(out, 2, N_ID)
        /\ Cell(top_prior_all, l, N_ID) = Cell(out, 1, N_ID)

IsTop(t, k) == t.derived[k].bucket \in {"Very High", "High"}

\* the position in t of its n-th row of bucket Very High or High
NthTop(t, n) ==
    CHOOSE k \in Rows(t) :
        IsTop(t, k) /\ Cardinality({j \in Rows(t) : j < k /\ IsTop(t, j)}) = n - 1

\* C6: top_prior holds exactly the rows of top_prior_all whose bucket is
\* Very High or High, in the relative order they have in top_prior_all.
C6_TopPriorIsFilteredView ==
    pc = "done" =>
        /\ Len(top_prior.rows)
                = Cardinality({k \in Rows(top_prior_all) : IsTop(top_prior_all, k)})
        /\ top_prior.columns = top_prior_all.columns
        /\ \A n \in Rows(top_prior) :
                /\ top_prior.rows[n]
                        = top_prior_all.rows[NthTop(top_prior_all, n)]
                /\ top_prior.derived[n]
                        = top_prior_all.derived[NthTop(top_prior_all, n)]

\* a portfolio of which one High account is kept and one other is left out
C6_Witness ==
    /\ pc = "done"
    /\ Len(top_prior.rows) >= 1
    /\ Len(top_prior.rows) < Len(top_prior_all.rows)
    /\ \E k \in Rows(top_prior) : top_prior.derived[k].bucket = "High"

IsAlnum(ch) ==
    \/ ch \in DOMAIN LowerOf
    \/ ch \in DOMAIN UpperOf
    \/ \E i \in DOMAIN DigitChars : DigitChars[i] = ch

\* a label with letter case, punctuation and spaces taken out
Squeeze(name) == lower(SelectSeq(name, IsAlnum))

\* the canonical name C7 promises for a label, None when it promises none
ClaimedName(name) ==
    LET q == Squeeze(name)
    IN  IF q = W_id THEN N_ID
        ELSE IF q \in LimitSpellings THEN N_LIMIT_BAL
        ELSE IF q \in LabelSpellings THEN N_LABEL
        ELSE IF \E i \in 0..6 : q = W_pay \o <<D(i)>>
        THEN PAY(CHOOSE i \in 0..6 : q = W_pay \o <<D(i)>>)
        ELSE IF \E i \in 1..6 : q = W_billamt \o <<D(i)>>
        THEN BILL_AMT(CHOOSE i \in 1..6 : q = W_billamt \o <<D(i)>>)
        ELSE IF \E i \in 1..6 : q = W_payamt \o <<D(i)>>
        THEN PAY_AMT(CHOOSE i \in 1..6 : q = W_payamt \o <<D(i)>>)
        ELSE None

\* C7: every spelling of pay{0-6}, billamt{1-6}, payamt{1-6}, id,
\* limitbal/limitbalance/limitamount/limit or
\* defaultpaymentnextmonth/defaultpayment that differs only by letter case,
\* punctuation or spaces is renamed to its canonical name (the column keeps
\* its data under that name).
C7_AnySpellingIsRenamed ==
    n_calls = 1 =>
        \A i \in DOMAIN file.columns :
            ClaimedName(file.columns[i]) # None =>
                \E j \in DOMAIN raw_df.columns :
                    /\ raw_df.columns[j] = ClaimedName(file.columns[i])
                    /\ raw_df.rows[1][j] = file.rows[1][i]

\* C8: _normalize_columns applied to its own output yields the same columns,
\* same names in the same order.
C8_NormalizeIdempotent ==
    n_calls >= 2 => raw_df = prev_df

\* a header of which the first application renamed one column and dropped
\* another, normalized a second time
C8_Witness ==
    /\ n_calls = 2
    /\ Len(prev_df.columns) < Len(file.columns)
    /\ \E i \in DOMAIN file.columns : \E j \in DOMAIN prev_df.columns :
        /\ prev_df.rows[1][j] = file.rows[1][i]
        /\ prev_df.columns[j] # file.columns[i]
        /\ prev_df.columns[j] = N_LIMIT_BAL

ColumnSet(df) == {df.columns[i] : i \in DOMAIN df.columns}

\* the failure condition of C9, on the normalized table
SchemaViolated(df) ==
    \/ N_ID \notin ColumnSet(df)
    \/ N_LIMIT_BAL \notin ColumnSet(df)
    \/ N_LABEL \notin ColumnSet(df)
    \/ Cardinality({i \in 0..6 : PAY(i) \in ColumnSet(df)}) < 3
    \/ BILL_AMT(1) \notin ColumnSet(df)
    \/ PAY_AMT(1) \notin ColumnSet(df)

\* C9: the pipeline fails with a validation error exactly when, after
\* normalization, ID, LIMIT_BAL or default.payment.next.month is absent, or
\* fewer than 3 of PAY_0..PAY_6 are present, or BILL_AMT1 or PAY_AMT1 is
\* absent; otherwise compute_features raises no validation error.
C9_FailsExactlyOnSchemaViolation ==
    pc \in {"done", "error"} =>
        /\ (pc = "error") <=> SchemaViolated(raw_df)
        /\ (err # "") <=> SchemaViolated(raw_df)

\* a table that lacks nothing but a third PAY_* column is refused
C9_Witness ==
    /\ pc = "error"
    /\ Cardinality({i \in 0..6 : PAY(i) \in ColumnSet(raw_df)}) = 2
    /\ {N_ID, N_LIMIT_BAL, N_LABEL, BILL_AMT(1), PAY_AMT(1)}
            \subseteq ColumnSet(raw_df)

\* C10: when validation fails compute_features raises before adding any
\* derived column: the table passed in has the columns and values it had,
\* none of out, top_prior, top_prior_all is returned, and the error reaches
\* the caller, the core neither catching it nor trying again.
C10_NoPartialResultOnError ==
    pc = "error" =>
        /\ base_df = raw_df
        /\ out = NoTable
        /\ top_prior = NoTable
        /\ top_prior_all = NoTable
        /\ err # ""
        /\ ~ENABLED Next

\* a table that passes the first two checks and fails the last one
C10_Witness ==
    /\ pc = "error"
    /\ err = "Perlu kolom BILL_AMT1 dan PAY_AMT1."
    /\ Len(raw_df.rows) = 1
    /\ Len(pay_cols_of(raw_df)) >= 3

\* the normalized table of header-row candidate h
Candidate(h) == _normalize_columns(read_excel(file, h))

\* candidate h can be read and has both ID and LIMIT_BAL
Satisfies(h) ==
    /\ h \notin file.raises
    /\ N_ID \in ColumnSet(Candidate(h))
    /\ N_LIMIT_BAL \in ColumnSet(Candidate(h))

\* C11: for a spreadsheet _read_file_any tries header rows 0 then 1 and
\* returns the normalized table of the first candidate that has both ID and
\* LIMIT_BAL; a candidate that lacks one of them, or whose read raises, is
\* never returned while a later candidate satisfies the predicate.
C11_FirstAcceptedHeaderIsReturned ==
    /\ (pc = "xls_loop" /\ hdr = 1) => ~Satisfies(0)
    /\ pc = "xls_fallback" => ~Satisfies(0) /\ ~Satisfies(1)
    /\ pc = "error" => ~Satisfies(0) /\ ~Satisfies(1)
    /\ pc = "loaded" =>
        raw_df = Candidate(IF Satisfies(0) THEN 0
                           ELSE IF Satisfies(1) THEN 1 ELSE 0)

\* header row 0 reads but lacks LIMIT_BAL, header row 1 has both and is the
\* one returned
C11_Witness ==
    /\ pc = "loaded"
    /\ 0 \notin file.raises
    /\ N_ID \in ColumnSet(Candidate(0))
    /\ ~Satisfies(0)
    /\ Satisfies(1)
    /\ raw_df = Candidate(1)

\* how many rows of t carry this ID
IdCount(t, id) == Cardinality({k \in Rows(t) : Cell(t, k, N_ID) = id})

\* C12: the pipeline never deletes records: for every valid input table out
\* and top_prior_all each hold exactly one row per input row (the same IDs
\* as many times as the input holds them), and every row of top_prior is a
\* row of top_prior_all.
C12_NoRecordDeleted ==
    pc = "done" =>
        /\ Len(base_df.rows) = Len(raw_df.rows)
        /\ Len(out.rows) = Len(raw_df.rows)
        /\ Len(top_prior_all.rows) = Len(raw_df.rows)
        /\ \A i \in Rows(raw_df) :
            LET id == Cell(raw_df, i, N_ID)
            IN  /\ IdCount(out, id) = IdCount(raw_df, id)
                /\ IdCount(top_prior_all, id) = IdCount(raw_df, id)
        /\ Len(top_prior.rows) <= Len(top_prior_all.rows)
        /\ \A k \in Rows(top_prior) : \E j \in Rows(top_prior_all) :
            /\ top_prior.rows[k] = top_prior_all.rows[j]
            /\ top_prior.derived[k] = top_prior_all.derived[j]
            /\ IdCount(top_prior, Cell(top_prior, k, N_ID)) = 1

\* a portfolio of two accounts that the sort reorders and of which the
\* filter keeps one
C12_Witness ==
    /\ pc = "done"
    /\ Len(raw_df.rows) = 2
    /\ Len(top_prior_all.rows) = 2
    /\ Len(top_prior.rows) = 1
    /\ Cell(top_prior_all, 1, N_ID) = Cell(raw_df, 2, N_ID)
    /\ Cell(top_prior_all, 2, N_ID) = Cell(raw_df, 1, N_ID)

\* the values row r of the input holds in the 'recent 3' columns
RecentCells(r) ==
    Tup([k \in DOMAIN recent3_of(raw_df) |-> Cell(raw_df, r, recent3_of(raw_df)[k])])

\* row r pays less than 70% of its last bill
PaysBelow70(r) ==
    /\ Cell(raw_df, r, PAY_AMT(1)) # NaN
    /\ Cell(raw_df, r, BILL_AMT(1)) # NaN
    /\ 10 * Cell(raw_df, r, PAY_AMT(1)) < 7 * Cell(raw_df, r, BILL_AMT(1))

\* C13: every account whose three recent PAY columns hold exactly two
\* positive values, at least one of them >= 2, and whose last payment is
\* below 70% of the last bill gets count_telat_3m = 2, edrs_score >= 6 and
\* bucket Very High.
C13_TwoLateMonthsIsVeryHigh ==
    pc = "done" =>
        \A r \in Rows(raw_df) :
            LET v == RecentCells(r)
            IN  (/\ Cardinality({k \in DOMAIN v : v[k] # NaN /\ v[k] > 0}) = 2
                 /\ \E k \in DOMAIN v : v[k] # NaN /\ v[k] >= 2
                 /\ PaysBelow70(r))
                => /\ base_df.derived[r].count_telat_3m = 2
                   /\ base_df.derived[r].edrs_score >= 6
                   /\ base_df.derived[r].bucket = "Very High"

\* the scenario PAY = 2, 0, 1 with nothing paid of a bill of 10
C13_Witness ==
    /\ pc = "done"
    /\ Len(raw_df.rows) = 1
    /\ RecentCells(1) = <<2, 0, 1>>
    /\ Cell(raw_df, 1, BILL_AMT(1)) = 10
    /\ Cell(raw_df, 1, PAY_AMT(1)) = 0
    /\ base_df.derived[1].count_telat_3m = 2
    /\ base_df.derived[1].edrs_score >= 6
    /\ base_df.derived[1].bucket = "Very High"

\* every PAY_* column row r has is 0 and its last bill, above 0, is paid in
\* full
CleanAccount(r) ==
    /\ \A i \in 0..6 :
        PAY(i) \in ColumnSet(raw_df) => Cell(raw_df, r, PAY(i)) = 0
    /\ Cell(raw_df, r, BILL_AMT(1)) # NaN
    /\ Cell(raw_df, r, BILL_AMT(1)) > 0
    /\ Cell(raw_df, r, PAY_AMT(1)) = Cell(raw_df, r, BILL_AMT(1))

ScoresZero(d) ==
    /\ d.count_telat_3m = 0
    /\ d.dpd_proxy_now = 0
    /\ d.streak_telat2plus = 0
    /\ d.edrs_score = 0
    /\ d.bucket = "Very Low"
    /\ d.next_best_action = "Tidak ada tindakan atau mass reminder"

\* C14: every account in which all present PAY_* columns are 0 and PAY_AMT1
\* equals BILL_AMT1 > 0 gets count_telat_3m = 0, dpd_proxy_now = 0,
\* streak_telat2plus = 0, edrs_score = 0, bucket Very Low and the no-action
\* next_best_action.
C14_CleanAccountScoresZero ==
    pc = "done" =>
        \A r \in Rows(raw_df) :
            CleanAccount(r) => ScoresZero(base_df.derived[r])

\* C14 as amended: the same for every such account whose bill trend is not
\* up; when its bill trend is up (three or more BILL_AMT columns, rising
\* from BILL_AMT1 on) the trend term alone gives edrs_score = 1 and bucket
\* Low, the three delinquency features staying 0.
C14_CleanAccountScoresTrendOnly ==
    pc = "done" =>
        \A r \in Rows(raw_df) :
            LET d == base_df.derived[r]
            IN  CleanAccount(r) =>
                    /\ d.count_telat_3m = 0
                    /\ d.dpd_proxy_now = 0
                    /\ d.streak_telat2plus = 0
                    /\ ~d.bill_trend_up => ScoresZero(d)
                    /\ d.bill_trend_up =>
                        /\ d.edrs_score = 1
                        /\ d.bucket = "Low"
                        /\ d.next_best_action = "WA otomatis atau reminder mingguan"

\* a clean account with three bill columns that do not rise, scored 0
C14_Witness ==
    /\ pc = "done"
    /\ Len(raw_df.rows) = 1
    /\ CleanAccount(1)
    /\ Len(bill_cols_of(raw_df)) >= 3
    /\ ~base_df.derived[1].bill_trend_up
    /\ ScoresZero(base_df.derived[1])

\* input column i is in the normalizer's output under this name
PresentAs(i, name) ==
    \E j \in DOMAIN raw_df.columns :
        /\ raw_df.columns[j] = name
        /\ raw_df.rows[1][j] = file.rows[1][i]

\* input column i is not in the normalizer's output
Absent(i) ==
    \A j \in DOMAIN raw_df.columns : raw_df.rows[1][j] # file.rows[1][i]

\* C15: every column whose name matches no rule keeps its original name
\* unchanged in the output, every column whose original name begins with
\* "Unnamed" is absent from the output, and no other column is dropped.
C15_UnmatchedKeptUnnamedDropped ==
    n_calls = 1 =>
        \A i \in DOMAIN file.columns :
            LET c == file.columns[i]
            IN  /\ startswith(c, N_Unnamed) => Absent(i)
                /\ ~startswith(c, N_Unnamed) => ~Absent(i)
                /\ (ClaimedName(c) = None /\ ~startswith(c, N_Unnamed))
                        => PresentAs(i, c)

\* C15 as amended: the original name is taken with its leading and trailing
\* whitespace stripped; a column that matches no rule is in the output under
\* that stripped name unless the stripped name begins with "Unnamed" (in this
\* letter case), in which case it is absent; every other column is in the
\* output, under its canonical name or its stripped name; the output holds
\* nothing else and keeps the input's column order.
C15_UnmatchedStrippedUnnamedDropped ==
    n_calls = 1 =>
        /\ \A i \in DOMAIN file.columns :
            LET c == file.columns[i]
            IN  IF ClaimedName(c) = None
                THEN IF startswith(strip(c), N_Unnamed)
                     THEN Absent(i)
                     ELSE PresentAs(i, strip(c))
                ELSE PresentAs(i, ClaimedName(c)) \/ PresentAs(i, strip(c))
        /\ \A j \in DOMAIN raw_df.columns :
            \E i \in DOMAIN file.columns :
                file.rows[1][i] = raw_df.rows[1][j]
        /\ \A j \in DOMAIN raw_df.columns :
            j + 1 \in DOMAIN raw_df.columns
                => raw_df.rows[1][j] < raw_df.rows[1][j + 1]

\* a header of a padded unmatched label, kept under its stripped name, and
\* a padded "Unnamed" label, dropped
C15_Witness ==
    /\ n_calls = 1
    /\ \E i \in DOMAIN file.columns :
        /\ ClaimedName(file.columns[i]) = None
        /\ strip(file.columns[i]) # file.columns[i]
        /\ PresentAs(i, strip(file.columns[i]))
    /\ \E i \in DOMAIN file.columns :
        /\ ~startswith(file.columns[i], N_Unnamed)
        /\ startswith(strip(file.columns[i]), N_Unnamed)
        /\ Absent(i)

\* the indexes i of the PAY_i columns the loaded table has
PresentPay == {i \in 0..6 : PAY(i) \in ColumnSet(raw_df)}

\* the three smallest of them
Recent3Idx ==
    {i \in PresentPay : Cardinality({j \in PresentPay : j < i}) < 3}

\* C16: the 'recent 3' window is the first three columns, in the order
\* PAY_0, PAY_1, ..., PAY_6, that are present in the table, and
\* count_telat_3m of a record is the number of those three columns whose
\* value is positive, an integer in 0..3.
C16_Recent3IsFirstThreePresent ==
    pc = "done" =>
        /\ Cardinality(Recent3Idx) = 3
        /\ Len(recent3_of(raw_df)) = 3
        /\ \A k \in 1..3 :
            \E i \in Recent3Idx :
                /\ recent3_of(raw_df)[k] = PAY(i)
                /\ Cardinality({j \in Recent3Idx : j < i}) = k - 1
        /\ \A r \in Rows(raw_df) :
            /\ base_df.derived[r].count_telat_3m =
                    Cardinality({i \in Recent3Idx :
                        /\ Cell(raw_df, r, PAY(i)) # NaN
                        /\ Cell(raw_df, r, PAY(i)) > 0})
            /\ base_df.derived[r].count_telat_3m \in 0..3

\* a table without PAY_0 and PAY_2 that has PAY_1, PAY_3, PAY_4 and PAY_5:
\* the window is PAY_1, PAY_3, PAY_4 and PAY_5, late too, is not counted
C16_Witness ==
    /\ pc = "done"
    /\ PresentPay = {1, 3, 4, 5}
    /\ Cell(raw_df, 1, PAY(5)) > 0
    /\ base_df.derived[1].count_telat_3m = 2
    /\ base_df.derived[1].count_telat_6m = 3

\* PAY_*, BILL_AMT* and PAY_AMT* column names
IsPayOrBilling(name) ==
    \/ \E i \in 0..6 : name = PAY(i)
    \/ \E i \in 1..6 : name = BILL_AMT(i) \/ name = PAY_AMT(i)

\* the loaded table with every missing PAY_* / billing value replaced by 0
ZeroFilled ==
    [raw_df EXCEPT !.rows =
        Tup([r \in DOMAIN raw_df.rows |->
            Tup([k \in DOMAIN raw_df.columns |->
                IF IsPayOrBilling(raw_df.columns[k]) /\ raw_df.rows[r][k] = NaN
                THEN 0 ELSE raw_df.rows[r][k]])])]

\* ZeroFilled with every negative PAY_* value replaced by 0 as well
ZeroFloored ==
    [ZeroFilled EXCEPT !.rows =
        Tup([r \in DOMAIN raw_df.rows |->
            Tup([k \in DOMAIN raw_df.columns |->
                IF (\E i \in 0..6 : raw_df.columns[k] = PAY(i))
                   /\ ZeroFilled.rows[r][k] < 0
                THEN 0 ELSE ZeroFilled.rows[r][k]])])]

\* C17: a missing value in any PAY_*, BILL_AMT* or PAY_AMT* column is
\* treated as zero: every derived feature, the score and the bucket of a
\* record equal those of the same record with the missing values replaced
\* by 0; and negative PAY_* values never add to count_telat_3m,
\* count_telat_6m, max_tunggakan_6m or streak_telat2plus.
C17_MissingTreatedAsZero ==
    pc = "done" =>
        \A r \in Rows(raw_df) :
            LET d == base_df.derived[r]
                z == Derived(ZeroFilled, r)
                f == Derived(ZeroFloored, r)
            IN  /\ d = z
                /\ d.count_telat_3m = f.count_telat_3m
                /\ d.count_telat_6m = f.count_telat_6m
                /\ d.max_tunggakan_6m = f.max_tunggakan_6m
                /\ d.streak_telat2plus = f.streak_telat2plus

\* the account of row r of the scored table is a row of top_prior
InTopPrior(r) ==
    \E k \in Rows(top_prior) :
        /\ Cell(top_prior, k, N_ID) = Cell(base_df, r, N_ID)
        /\ top_prior.derived[k].edrs_score = base_df.derived[r].edrs_score

\* C19: every account with streak_telat2plus = 1 also has
\* count_telat_3m >= 1 and max_tunggakan_6m >= 2, hence edrs_score >= 4 and
\* bucket High or Very High, and is in top_prior; no account two or more
\* months late in the recent window is bucketed Med, Low or Very Low.
C19_StreakImpliesHighPriority ==
    pc = "done" =>
        \A r \in Rows(base_df) :
            LET d == base_df.derived[r]
                v == RecentCells(r)
            IN  /\ d.streak_telat2plus = 1 =>
                    /\ d.count_telat_3m >= 1
                    /\ d.max_tunggakan_6m >= 2
                    /\ d.edrs_score >= 4
                    /\ d.bucket \in {"High", "Very High"}
                    /\ InTopPrior(r)
                /\ (\E k \in DOMAIN v : v[k] # NaN /\ v[k] >= 2) =>
                    /\ d.streak_telat2plus = 1
                    /\ d.bucket \notin {"Med", "Low", "Very Low"}

\* an account two months late once and otherwise clean: score exactly 4,
\* bucket High, listed in top_prior
C19_Witness ==
    /\ pc = "done"
    /\ \E r \in Rows(base_df) :
        /\ base_df.derived[r].streak_telat2plus = 1
        /\ base_df.derived[r].count_telat_3m = 1
        /\ base_df.derived[r].edrs_score = 4
        /\ base_df.derived[r].bucket = "High"
        /\ InTopPrior(r)

\* the score of a record without its payment-ratio term
OtherTerms(d) ==
    2 * d.count_telat_3m
    + Ind(d.count_telat_6m >= 3)
    + Ind(d.max_tunggakan_6m >= 2)
    + Ind(d.bill_trend_up)
    + Ind(d.dpd_proxy_now >= 1)
    + Ind(d.streak_telat2plus >= 1)

\* C20: an account with BILL_AMT1 = 0 and PAY_AMT1 = 0 has ratio 0 and
\* receives the +1 payment-ratio term, so its edrs_score is >= 1 and it is
\* never bucketed Very Low, even when every PAY_* is 0; an account with
\* BILL_AMT1 = 0 and PAY_AMT1 > 0 never receives the term.
C20_ZeroBillZeroPaymentScores ==
    pc = "done" =>
        \A r \in Rows(raw_df) :
            LET d == base_df.derived[r]
                bill == Cell(raw_df, r, BILL_AMT(1))
                pay == Cell(raw_df, r, PAY_AMT(1))
            IN  /\ (bill = 0 /\ pay = 0) =>
                    /\ d.edrs_score = OtherTerms(d) + 1
                    /\ d.edrs_score >= 1
                    /\ d.bucket # "Very Low"
                /\ (bill = 0 /\ pay # NaN /\ pay > 0) =>
                    d.edrs_score = OtherTerms(d)

\* an account with every PAY_* 0, no bill and no payment: score 1, Low
C20_Witness ==
    /\ pc = "done"
    /\ Len(raw_df.rows) = 1
    /\ \A i \in 0..6 :
        PAY(i) \in ColumnSet(raw_df) => Cell(raw_df, 1, PAY(i)) = 0
    /\ Cell(raw_df, 1, BILL_AMT(1)) = 0
    /\ Cell(raw_df, 1, PAY_AMT(1)) = 0
    /\ base_df.derived[1].edrs_score = 1
    /\ base_df.derived[1].bucket = "Low"

\* the step is a get_or_generate_conclusion call; last_call' describes it
IsCall == n_calls' = n_calls + 1

\* the signature of the call's (ID, insight text, prompt version)
CallSig == _insight_signature(last_call'.id, last_call'.insight)

\* a text came back without the service being called only from an index
\* entry of that ID with the call's signature whose file exists
ServedOnlyOnMatch ==
    last_call'.n_service = 0 =>
        /\ last_call'.id \in DOMAIN index
        /\ index[last_call'.id].sig = CallSig
        /\ index[last_call'.id].path \in DOMAIN cache_files
        /\ last_call'.text = cache_files[index[last_call'.id].path]
        /\ index' = index
        /\ cache_files' = cache_files

\* the index before the call holds an entry of the ID made for another
\* insight text
InsightChanged ==
    /\ last_call'.id \in DOMAIN index
    /\ index[last_call'.id].sig # CallSig

\* the entries of the other IDs are as they were and no ID is gone
OtherEntriesKept ==
    /\ DOMAIN index \subseteq DOMAIN index'
    /\ DOMAIN index' \subseteq DOMAIN index \cup {last_call'.id}
    /\ \A i \in DOMAIN index : i # last_call'.id => index'[i] = index[i]

\* the index holds the call's entry, and its file the text returned
NewEntryStored ==
    /\ last_call'.id \in DOMAIN index'
    /\ index'[last_call'.id].sig = CallSig
    /\ index'[last_call'.id].path \in DOMAIN cache_files'
    /\ cache_files'[index'[last_call'.id].path] = last_call'.text

\* every answer the service gave was empty: the text is the fallback text,
\* which bucket, dpd_proxy_now and ratio_bayar_last alone determine
FallbackWhenUnavailable ==
    (last_call'.draft1 = <<>> \/ last_call'.final = <<>>) =>
        last_call'.text =
            _fallback_conclusion(
                [bucket |-> last_call'.row.bucket,
                 dpd_proxy_now |-> last_call'.row.dpd_proxy_now,
                 ratio_bayar_last |-> last_call'.row.ratio_bayar_last])

\* C18: over any sequence of get_or_generate_conclusion calls a stored text
\* is returned without calling the service only when the index entry of that
\* ID holds the signature of the current (ID, insight text, prompt version)
\* and its file exists; when the insight text of an ID changes the old entry
\* is not served and is overwritten by the new one, the index holding at
\* most one entry per ID; when the service is unavailable the result is the
\* fallback text, a function of bucket, dpd_proxy_now and ratio_bayar_last.
C18_ChangedInsightOverwritesEntry ==
    [][IsCall =>
        /\ ServedOnlyOnMatch
        /\ OtherEntriesKept
        /\ InsightChanged => (last_call'.n_service >= 1 /\ NewEntryStored)
        /\ FallbackWhenUnavailable]_vars

\* C18 as amended: the old entry of a changed insight text is never served,
\* and it is overwritten by the new one exactly when a new text is stored,
\* that is when stage 1 returned a draft and the cache write succeeded; when
\* stage 1 returns empty or the write fails the index is left as it was, the
\* old entry still in it.  The rest as in C18.
C18_ChangedInsightNotServed ==
    [][IsCall =>
        /\ ServedOnlyOnMatch
        /\ OtherEntriesKept
        /\ InsightChanged => last_call'.n_service >= 1
        /\ IF last_call'.n_service = 2 /\ last_call'.write = "ok"
           THEN NewEntryStored
           ELSE index' = index
        /\ (last_call'.n_service = 2) <=>
                (last_call'.n_service # 0 /\ last_call'.draft1 # <<>>)
        /\ FallbackWhenUnavailable]_vars

\* an ID whose insight text changed: the last call generated and stored a
\* new text, the index entry carries the new signature, and the file of the
\* earlier text is still in the directory under its own name
C18_Witness ==
    /\ pc = "cache"
    /\ n_calls >= 2
    /\ last_call.n_service = 2
    /\ last_call.write = "ok"
    /\ last_call.id \in DOMAIN index
    /\ index[last_call.id].sig
            = _insight_signature(last_call.id, last_call.insight)
    /\ \E p \in DOMAIN cache_files :
        /\ p[1] = last_call.id
        /\ p # index[last_call.id].path

\* the fallback text of the call's row
CallFallback == _fallback_conclusion(last_call'.row)

\* stage 1 of the call came back empty
Stage1Empty == last_call'.n_service = 1 /\ last_call'.draft1 = <<>>

\* stage 1 of the call gave a draft and stage 2 came back empty
Stage2Empty == last_call'.n_service = 2 /\ last_call'.final = <<>>

\* the call changed the index or a cache file
CacheChanged == index' # index \/ cache_files' # cache_files

\* the call is for the ID and insight text of the call before it
SameAsPrevious ==
    /\ n_calls >= 1
    /\ last_call'.id = last_call.id
    /\ last_call'.insight = last_call.insight

\* the fallback is returned and nothing is written when stage 1 is empty,
\* and the call after it for the same ID and signature calls the service
Stage1EmptyLeavesCache ==
    /\ Stage1Empty =>
            /\ last_call'.text = CallFallback
            /\ index' = index
            /\ cache_files' = cache_files
    /\ (SameAsPrevious /\ last_call.draft1 = <<>>) =>
            last_call'.n_service >= 1

=============================================================================
